---- MODULE Spec2Model ----
(***************************************************************************)
(* Model of the executor core: ROOT::Experimental::TNUMAExecutor           *)
(* (core/imt/inc/ROOT/TNUMAExecutor.hxx) and ROOT::Internal::TExecutor,    *)
(* and of the evaluators ROOT::Fit::FitUtil::Evaluate<T> that use it       *)
(* (math/mathcore/inc/Fit/FitUtil.h).                                      *)
(*                                                                         *)
(* One driver owns one executor object at a time (a TNUMAExecutor or a     *)
(* TExecutor), issues one synchronous call at a time on it, and the        *)
(* workers of the call run in any interleaving.  The work functions are    *)
(*   nTimes form : func()  = 1                                             *)
(*   TSeq form   : func(i) = i                                             *)
(*   vector form : func(x) = x * x                                         *)
(* and the reduction function is the integer sum.  All quantities stay far *)
(* below 2^32, so unsigned arithmetic is modelled by the integers.         *)
(***************************************************************************)
EXTENDS Integers, Sequences, FiniteSets, TLC

VARIABLES
    imt,        \* build flag R__USE_IMT
    implicitMT, \* process-wide flag read by ROOT::IsImplicitMTEnabled()
    exec,       \* the executor object owned by the driver
    call,       \* the call in progress or last returned
    tasks,      \* workers of the call (domain tasks, chunk tasks, item tasks)
    arrived,    \* worker outputs in completion order
    invoked,    \* history: how often func ran for each work item of the call
    last,       \* outcome of the call once it has returned
    prevFailed  \* func failed in the previous call on this TExecutor object

vars == <<imt, implicitMT, exec, call, tasks, arrived, invoked, last, prevFailed>>

----------------------------------------------------------------------------
(* Bounds of the model *)

MaxDomains == 2        \* NUMA domains reported by numa_max_node() + 1
MaxItems == 3          \* work items of one call
MaxChunks == 4         \* largest chunk hint
MaxThreads == 2        \* requested workers 0..MaxThreads
HardwareConcurrency == 2
MaxFail == 1            \* func fails on no index or on one of 0..MaxFail

NoFail == 0 - 1

Keys == 0 .. (MaxItems - 1)
Policies == {"kSerial", "kMultithread", "kMultiprocess"}

\* contents of the vectors handed to the vector forms (prefixes of one vector)
BaseVec == [k \in 1 .. (MaxItems + 1) |-> ((k * 2) % 5) + 1]
VecOf(n) == SubSeq(BaseVec, 1, n)

Min(a, b) == IF a < b THEN a ELSE b
Max(a, b) == IF a > b THEN a ELSE b

RECURSIVE SumSeq(_)
SumSeq(s) == IF s = <<>> THEN 0 ELSE Head(s) + SumSeq(Tail(s))

----------------------------------------------------------------------------
(* Outcomes of calls and of workers *)

Ok(v) == [st |-> "ok", val |-> v, vec |-> <<>>, err |-> "none"]
OkVec(s) == [st |-> "ok", val |-> 0, vec |-> s, err |-> "none"]
Err(e) == [st |-> "error", val |-> 0, vec |-> <<>>, err |-> e]
NoOutcome == [st |-> "none", val |-> 0, vec |-> <<>>, err |-> "none"]

----------------------------------------------------------------------------
(* The work function and the reduction function of the calls *)

\* value of the work item with key k: the index itself (TSeq), the element
\* at position k (vector), nothing the function looks at (nTimes)
ItemAt(c, k) == IF c.form = "vec" THEN c.vec[k + 1] ELSE k

func(form, x) == IF form = "nTimes" THEN 1 ELSE IF form = "seq" THEN x ELSE x * x

\* integer sum, as std::accumulate(v.begin(), v.end(), 0)
redfunc(objs) == SumSeq(objs)

\* TExecutorCRTP::Reduce: the empty-input condition is an error
Reduce(objs) == IF objs = <<>> THEN Err("empty_input") ELSE Ok(redfunc(objs))

----------------------------------------------------------------------------
(* Chunking strategy *)

ChunkMultiplier == 2

ChunkCount(n, poolSize, hint) ==
    IF n = 0 THEN 0
    ELSE IF hint # 0 THEN Min(hint, n)
    ELSE Min(Max(1, ChunkMultiplier * poolSize), n)

\* chunk k (0-based) of c chunks over the keys [lo, hi)
ChunkRange(lo, hi, c, k) ==
    LET step == (hi - lo) \div c
    IN [lo |-> lo + k * step,
        hi |-> IF k = c - 1 THEN hi ELSE lo + (k + 1) * step]

EffectivePoolSize(n) == IF n = 0 THEN HardwareConcurrency ELSE n

\* keys of [lo, hi) in increasing order
RECURSIVE KeySeq(_, _)
KeySeq(lo, hi) == IF lo >= hi THEN <<>> ELSE <<lo>> \o KeySeq(lo + 1, hi)

\* The work done by one scheduled task on the keys [lo, hi): func on every
\* key in increasing order, stopping at the key func fails on.
RunRange(c, lo, hi) ==
    LET failed == c.failAt >= lo /\ c.failAt < hi
        stop == IF failed THEN c.failAt + 1 ELSE hi
    IN [failed |-> failed,
        ran |-> KeySeq(lo, stop),
        results |-> [j \in 1 .. (IF failed THEN 0 ELSE hi - lo) |->
                        func(c.form, ItemAt(c, lo + j - 1))]]

\* TThreadExecutorImpl::MapReduce on the keys [lo, hi): chunk, fold every
\* chunk, fold the partial results.  All chunks are awaited before a failure
\* is delivered.
ThreadPool_MapReduce(c, lo, hi, poolSize, hint) ==
    LET n == IF hi > lo THEN hi - lo ELSE 0
        cc == ChunkCount(n, EffectivePoolSize(poolSize), hint)
        runs == [k \in 1 .. cc |->
                    LET r == ChunkRange(lo, hi, cc, k - 1) IN RunRange(c, r.lo, r.hi)]
        anyFailed == \E k \in 1 .. cc : runs[k].failed
        partials == [k \in 1 .. cc |-> redfunc(runs[k].results)]
    IN [out |-> IF anyFailed THEN Err("func_failed") ELSE Reduce(partials),
        ran |-> [k \in Keys |-> Cardinality({j \in 1 .. cc :
                                   \E p \in 1 .. Len(runs[j].ran) : runs[j].ran[p] = k})]]

----------------------------------------------------------------------------
(* State of the driver *)

NullPool == 0 - 1
AllNodes == 0 - 1

\* def: which of the two definitions of class TNUMAExecutor the build has;
\* pool: the class of the executor a domain task creates
NoExec == [kind |-> "none", def |-> 0, pool |-> "none",
           fNDomains |-> 0, fDomainNThreads |-> 0,
           fExecPolicy |-> "none", fSeqPool |-> NullPool,
           fThreadPool |-> NullPool, fProcPool |-> NullPool,
           fDim |-> 0, fParams |-> 0, fIg1Dim |-> 0, fIgNDim |-> 0,
           fFunc1Dim |-> 0, fFuncNDim |-> 0, heap |-> {}, allocated |-> 0]

NoCall == [phase |-> "idle", api |-> "none", form |-> "nTimes", lo |-> 0, hi |-> 0,
           vec |-> <<>>, nChunks |-> 0, failAt |-> NoFail, stride |-> 0,
           dataRanges |-> <<>>, backend |-> "none", policy |-> "none",
           defaulted |-> FALSE, nProcessingUnits |-> 0,
           vecSize |-> 1, executionPolicy |-> 0, nPoints |-> 0, logged |-> FALSE,
           nThreads |-> 0, fanout |-> "none",
           res |-> <<>>, iWeight |-> 0, fitOpt |-> FALSE, nPoints0 |-> 0,
           useIntegral |-> FALSE, heap |-> {}]

NoneInvoked == [k \in Keys |-> 0]

Task(lo, hi) == [pc |-> "queued", lo |-> lo, hi |-> hi, res |-> NoOutcome,
                 pin |-> AllNodes, oob |-> FALSE, hint |-> 0, nThreads |-> 0]

Finished(t) == t.pc \in {"done", "failed"}

Init ==
    /\ imt \in BOOLEAN
    /\ implicitMT = FALSE
    /\ exec = NoExec
    /\ call = NoCall
    /\ tasks = <<>>
    /\ arrived = <<>>
    /\ invoked = NoneInvoked
    /\ last = NoOutcome
    /\ prevFailed = FALSE

\* the caller is not inside a call
CallerFree == call.phase = "idle"

\* the caller has looked at the outcome of the returned call and drops it
Acknowledge ==
    /\ call.phase = "returned"
    /\ call' = NoCall
    /\ tasks' = <<>>
    /\ arrived' = <<>>
    /\ invoked' = NoneInvoked
    /\ prevFailed' = IF call.api = "ctor" THEN prevFailed
                     ELSE exec.kind = "facade" /\ last.err = "func_failed"
    /\ last' = NoOutcome
    /\ UNCHANGED <<imt, implicitMT, exec>>

\* the object goes out of scope
Destroy ==
    /\ exec.kind \in {"numa", "facade"}
    /\ CallerFree
    /\ exec' = NoExec
    /\ prevFailed' = FALSE
    /\ UNCHANGED <<imt, implicitMT, call, tasks, arrived, invoked, last>>

\* ROOT::EnableImplicitMT(): setup code of the process, between the calls
\* of the driver; the flag can be on only in a build with R__USE_IMT
EnableImplicitMT ==
    /\ imt
    /\ CallerFree
    /\ ~implicitMT
    /\ implicitMT' = TRUE
    /\ UNCHANGED <<imt, exec, call, tasks, arrived, invoked, last, prevFailed>>

\* ROOT::DisableImplicitMT()
DisableImplicitMT ==
    /\ CallerFree
    /\ implicitMT
    /\ implicitMT' = FALSE
    /\ UNCHANGED <<imt, exec, call, tasks, arrived, invoked, last, prevFailed>>

----------------------------------------------------------------------------
(* TNUMAExecutor *)

\* TNUMAExecutor(nThreads): nodes is numa_max_node() + 1.  The header pulls
\* in the thread executor, which only builds with R__USE_IMT.
\* The class a domain task names for its pool. The first definition names
\* ROOT::TThreadExecutor, which is the thread pool class in a tree whose
\* TThreadExecutor.hxx declares it, and ROOT::Experimental::TNUMAExecutor
\* under the alias of TThreadExecutor.hxx (NUMAExecutor is defined there);
\* the second definition names ROOT::TThreadExecutorImpl.
DomainPoolClass(def, aliased) ==
    IF def = 1 /\ aliased THEN "TNUMAExecutor" ELSE "TThreadExecutorImpl"

\* fDomainNThreads: first definition fTaskArenaW->TaskArenaSize()/fNDomains,
\* second definition nThreads/fNDomains
TNUMAExecutor_fDomainNThreads(def, nThreads, nodes) ==
    IF def = 1 THEN EffectivePoolSize(nThreads) \div nodes ELSE nThreads \div nodes

\* variant: the floor is taken of the rounded-up quotient
TNUMAExecutor_ctor_ceil(nThreads, nodes, def, aliased) ==
    /\ imt
    /\ exec.kind = "none"
    /\ CallerFree
    /\ def = 2 => aliased
    /\ exec' = [NoExec EXCEPT !.kind = "numa", !.def = def,
                              !.pool = DomainPoolClass(def, aliased),
                              !.fNDomains = nodes,
                              !.fDomainNThreads =
                                  (TNUMAExecutor_fDomainNThreads(def, nThreads, 1)
                                     + nodes - 1) \div nodes]
    /\ call' = [NoCall EXCEPT !.phase = "returned", !.api = "TNUMAExecutor",
                              !.nThreads = nThreads]
    /\ last' = Ok(0)
    /\ UNCHANGED <<imt, implicitMT, tasks, arrived, invoked, prevFailed>>

\* TNUMAExecutor(nThreads): fNDomains(numa_max_node()+1), fDomainNThreads
TNUMAExecutor_ctor(nThreads, nodes, def, aliased) ==
    /\ imt
    /\ exec.kind = "none"
    /\ CallerFree
    /\ def = 2 => aliased
    /\ exec' = [NoExec EXCEPT !.kind = "numa", !.def = def,
                              !.pool = DomainPoolClass(def, aliased),
                              !.fNDomains = nodes,
                              !.fDomainNThreads =
                                  TNUMAExecutor_fDomainNThreads(def, nThreads, nodes)]
    /\ call' = [NoCall EXCEPT !.phase = "returned", !.api = "TNUMAExecutor",
                              !.nThreads = nThreads]
    /\ last' = Ok(0)
    /\ UNCHANGED <<imt, implicitMT, tasks, arrived, invoked, prevFailed>>

\* second definition, TNUMAExecutor(): delegates with the size of the
\* global pool, or with hardware_concurrency() when there is no global pool
TNUMAExecutor_default_ctor(poolSize, nodes) ==
    TNUMAExecutor_ctor(IF poolSize = 0 THEN HardwareConcurrency ELSE poolSize,
                       nodes, 2, TRUE)

\* variant: the loop also runs for i * stride = size - stride
RECURSIVE splitDataLoop_inclusive(_, _, _, _)
splitDataLoop_inclusive(i, stride, size, v) ==
    IF i * stride <= size - stride /\ stride > 0
    THEN splitDataLoop_inclusive(i + 1, stride, size,
                                 Append(v, [lo |-> i * stride, hi |-> (i + 1) * stride]))
    ELSE Append(v, [lo |-> i * stride, hi |-> size])

\* splitData: the loop emplaces strided slices, the last slice takes the rest
RECURSIVE splitDataLoop(_, _, _, _)
splitDataLoop(i, stride, size, v) ==
    IF i * stride < size - stride
    THEN splitDataLoop(i + 1, stride, size,
                       Append(v, [lo |-> i * stride, hi |-> (i + 1) * stride]))
    ELSE Append(v, [lo |-> i * stride, hi |-> size])

splitData(nToProcess, fNDomains) ==
    LET stride == (nToProcess + fNDomains - 1) \div fNDomains
    IN splitDataLoop(0, stride, nToProcess, <<>>)

\* the call starts: one task per element of TSeq<unsigned>(fNDomains)
StartNUMA(c) ==
    /\ exec.kind = "numa"
    /\ CallerFree
    /\ call' = c
    /\ tasks' = [i \in 1 .. exec.fNDomains |-> Task(0, 0)]
    /\ UNCHANGED <<imt, implicitMT, exec, arrived, invoked, last, prevFailed>>

\* The pool of size fNDomains that runs the domain tasks: a
\* ROOT::TProcessExecutor, except in the TSeq form of the second definition,
\* which declares ROOT::TThreadExecutorImpl proc(fNDomains)
FanOutClass(def, form) ==
    IF def = 2 /\ form = "seq" THEN "TThreadExecutorImpl" ELSE "TProcessExecutor"

TNUMAExecutor_MapReduce_nTimes(nTimes, nChunks, failAt) ==
    StartNUMA([NoCall EXCEPT !.phase = "running", !.api = "numa", !.form = "nTimes",
                             !.fanout = FanOutClass(exec.def, "nTimes"),
                             !.lo = 0, !.hi = nTimes, !.nChunks = nChunks,
                             !.failAt = failAt])

TNUMAExecutor_MapReduce_vector(args, nChunks, failAt) ==
    StartNUMA([NoCall EXCEPT !.phase = "running", !.api = "numa", !.form = "vec",
                             !.fanout = FanOutClass(exec.def, "vec"),
                             !.lo = 0, !.hi = Len(args), !.vec = args,
                             !.nChunks = nChunks, !.failAt = failAt,
                             !.dataRanges = splitData(Len(args), exec.fNDomains)])

TNUMAExecutor_MapReduce_TSeq(b, e, nChunks, failAt) ==
    b <= e /\
    StartNUMA([NoCall EXCEPT !.phase = "running", !.api = "numa", !.form = "seq",
                             !.fanout = FanOutClass(exec.def, "seq"),
                             !.lo = b, !.hi = e, !.nChunks = nChunks, !.failAt = failAt,
                             !.stride = (e - b + exec.fNDomains - 1) \div exec.fNDomains])

\* What runOnNode(i) hands to the domain-local pool, i = 0 .. fNDomains - 1.
\* nTimes form: the whole count, and the hint only when nChunks is non-zero
runOnNode_nTimes(c, i) ==
    {[lo |-> 0, hi |-> c.hi, oob |-> FALSE, crash |-> FALSE,
      hint |-> IF c.nChunks # 0 THEN c.nChunks \div exec.fNDomains ELSE 0]}

\* vector form: dataRanges[i]; an index past the end of dataRanges reads
\* whatever lies there: the access faults, or yields some span of memory
\* (here: a span over the head of the vector, of any length)
runOnNode_vector(c, i) ==
    LET hint == IF c.nChunks # 0 THEN c.nChunks \div exec.fNDomains ELSE 0
    IN IF i < Len(c.dataRanges)
       THEN {[lo |-> c.dataRanges[i + 1].lo, hi |-> c.dataRanges[i + 1].hi,
              oob |-> FALSE, crash |-> FALSE, hint |-> hint]}
       ELSE {[lo |-> 0, hi |-> 0, oob |-> TRUE, crash |-> TRUE, hint |-> hint]}
            \cup {[lo |-> 0, hi |-> h, oob |-> TRUE, crash |-> FALSE, hint |-> hint] :
                    h \in 0 .. c.hi}

\* variant: the caller's nChunks is handed on undivided
runOnNode_TSeq_undivided(c, i) ==
    {[lo |-> Max(c.lo, i * c.stride), hi |-> Min((i + 1) * c.stride, c.hi),
      oob |-> FALSE, crash |-> FALSE, hint |-> c.nChunks]}

\* TSeq form: sequence(max(begin, i*stride), min((i+1)*stride, end))
runOnNode_TSeq(c, i) ==
    {[lo |-> Max(c.lo, i * c.stride), hi |-> Min((i + 1) * c.stride, c.hi),
      oob |-> FALSE, crash |-> FALSE, hint |-> c.nChunks \div exec.fNDomains]}

runOnNode(c, i) ==
    IF c.form = "nTimes" THEN runOnNode_nTimes(c, i)
    ELSE IF c.form = "vec" THEN runOnNode_vector(c, i)
    ELSE runOnNode_TSeq(c, i)

InNUMACall == call.phase = "running" /\ call.api = "numa"

\* variant: every domain task is pinned to node 0
DomainPin_node0(i) ==
    /\ InNUMACall
    /\ i < Len(tasks)
    /\ tasks[i + 1].pc = "queued"
    /\ tasks' = [tasks EXCEPT ![i + 1].pc = "pinned", ![i + 1].pin = 0]
    /\ UNCHANGED <<imt, implicitMT, exec, call, arrived, invoked, last, prevFailed>>

\* numa_run_on_node(i)
DomainPin(i) ==
    /\ InNUMACall
    /\ i < Len(tasks)
    /\ tasks[i + 1].pc = "queued"
    /\ tasks' = [tasks EXCEPT ![i + 1].pc = "pinned", ![i + 1].pin = i]
    /\ UNCHANGED <<imt, implicitMT, exec, call, arrived, invoked, last, prevFailed>>

\* the domain-local pool runs MapReduce on the domain's share; an exception
\* leaves runOnNode at this statement
DomainRun(i) ==
    /\ InNUMACall
    /\ exec.pool = "TThreadExecutorImpl"
    /\ i < Len(tasks)
    /\ tasks[i + 1].pc = "pinned"
    /\ \E w \in runOnNode(call, i) :
         LET r == ThreadPool_MapReduce(call, w.lo, w.hi, exec.fDomainNThreads, w.hint)
             out == IF w.crash THEN Err("crash") ELSE r.out
         IN /\ tasks' = [tasks EXCEPT ![i + 1].pc = IF out.st = "ok" THEN "ran" ELSE "failed",
                                      ![i + 1].lo = w.lo, ![i + 1].hi = w.hi,
                                      ![i + 1].oob = w.oob, ![i + 1].hint = w.hint,
                                      ![i + 1].nThreads = exec.fDomainNThreads,
                                      ![i + 1].res = out]
            /\ invoked' = IF w.crash THEN invoked
                          ELSE [k \in Keys |-> invoked[k] + r.ran[k]]
    /\ UNCHANGED <<imt, implicitMT, exec, call, arrived, last, prevFailed>>

\* The executor the domain task creates is itself a TNUMAExecutor: its
\* MapReduce starts fNDomains domain tasks again, each of which creates a
\* TNUMAExecutor, and so on; the MapReduce of the domain task never returns.
DomainNest(i) ==
    /\ InNUMACall
    /\ exec.pool = "TNUMAExecutor"
    /\ i < Len(tasks)
    /\ tasks[i + 1].pc = "pinned"
    /\ tasks' = [tasks EXCEPT ![i + 1].pc = "nested",
                              ![i + 1].nThreads = exec.fDomainNThreads]
    /\ UNCHANGED <<imt, implicitMT, exec, call, arrived, invoked, last, prevFailed>>

\* numa_run_on_node_mask(numa_all_nodes_ptr); return res
DomainUnpin(i) ==
    /\ InNUMACall
    /\ i < Len(tasks)
    /\ tasks[i + 1].pc = "ran"
    /\ tasks' = [tasks EXCEPT ![i + 1].pc = "done", ![i + 1].pin = AllNodes]
    /\ UNCHANGED <<imt, implicitMT, exec, call, arrived, invoked, last, prevFailed>>

\* the fan-out pool has joined its workers
PoolJoined == \A k \in 1 .. Len(tasks) : Finished(tasks[k])

AnyFailed == \E k \in 1 .. Len(tasks) : tasks[k].pc = "failed"

FirstFailure ==
    tasks[CHOOSE k \in 1 .. Len(tasks) :
            /\ tasks[k].pc = "failed"
            /\ \A j \in 1 .. (k - 1) : tasks[j].pc # "failed"].res

\* variant: the first failure is delivered without waiting for the siblings
TNUMAExecutor_Return_early ==
    /\ InNUMACall
    /\ AnyFailed \/ PoolJoined
    /\ last' = IF AnyFailed THEN FirstFailure
               ELSE Reduce([k \in 1 .. Len(tasks) |-> tasks[k].res.val])
    /\ call' = [call EXCEPT !.phase = "returned"]
    /\ UNCHANGED <<imt, implicitMT, exec, tasks, arrived, invoked, prevFailed>>

\* variant: the partial result of domain 0 is reduced twice
TNUMAExecutor_Return_twice ==
    /\ InNUMACall
    /\ PoolJoined
    /\ last' = IF AnyFailed THEN FirstFailure
               ELSE Reduce([k \in 1 .. (Len(tasks) + 1) |->
                              tasks[IF k > Len(tasks) THEN 1 ELSE k].res.val])
    /\ call' = [call EXCEPT !.phase = "returned"]
    /\ UNCHANGED <<imt, implicitMT, exec, tasks, arrived, invoked, prevFailed>>

\* return processExecutor.MapReduce(runOnNode, TSeq<unsigned>(fNDomains), redfunc)
TNUMAExecutor_Return ==
    /\ InNUMACall
    /\ PoolJoined
    /\ last' = IF AnyFailed THEN FirstFailure
               ELSE Reduce([k \in 1 .. Len(tasks) |-> tasks[k].res.val])
    /\ call' = [call EXCEPT !.phase = "returned"]
    /\ UNCHANGED <<imt, implicitMT, exec, tasks, arrived, invoked, prevFailed>>

\* GetNUMADomains(): return fNDomains
TNUMAExecutor_GetNUMADomains(e) == e.fNDomains

GetNUMADomains_call ==
    /\ exec.kind = "numa"
    /\ CallerFree
    /\ call' = [NoCall EXCEPT !.phase = "returned", !.api = "GetNUMADomains"]
    /\ last' = Ok(TNUMAExecutor_GetNUMADomains(exec))
    /\ UNCHANGED <<imt, implicitMT, exec, tasks, arrived, invoked, prevFailed>>

\* func never fails, fails on the first index, or fails on index MaxFail
FailIndexes == {NoFail, 0, MaxFail}

\* chunk hints of the calls: automatic, one chunk, two chunks, many chunks
ChunkHints == {0, 1, 2, MaxChunks}

\* chunk hints of the NUMA calls: automatic, fewer chunks than domains, and
\* many chunks
NUMAHints == {0, 1, MaxChunks}

NextNUMA ==
    \/ \E n \in 0 .. MaxThreads, d \in 1 .. MaxDomains, def \in {1, 2}, a \in BOOLEAN :
         TNUMAExecutor_ctor(n, d, def, a)
    \/ \E n \in 0 .. MaxThreads, d \in 1 .. MaxDomains : TNUMAExecutor_default_ctor(n, d)
    \/ \E n \in 0 .. MaxItems, h \in NUMAHints, f \in FailIndexes :
         TNUMAExecutor_MapReduce_nTimes(n, h, f)
    \/ \E n \in 0 .. MaxItems, h \in NUMAHints, f \in FailIndexes :
         TNUMAExecutor_MapReduce_vector(VecOf(n), h, f)
    \/ \E b \in 0 .. MaxItems, e \in 0 .. MaxItems, h \in NUMAHints, f \in FailIndexes :
         TNUMAExecutor_MapReduce_TSeq(b, e, h, f)
    \/ \E i \in 0 .. (MaxDomains - 1) : DomainPin(i)
    \/ \E i \in 0 .. (MaxDomains - 1) : DomainRun(i)
    \/ \E i \in 0 .. (MaxDomains - 1) : DomainNest(i)
    \/ \E i \in 0 .. (MaxDomains - 1) : DomainUnpin(i)
    \/ TNUMAExecutor_Return
    \/ GetNUMADomains_call

----------------------------------------------------------------------------
(* TExecutor *)

AllPolicies == Policies \cup {"kInvalid"}

\* variant: the default branch falls back to the sequential backend
TExecutor_ctor_case_downgrade(execPolicy) ==
    IF imt /\ execPolicy = "kMultithread" THEN "thread"
    ELSE IF execPolicy = "kMultiprocess" THEN "proc"
    ELSE "seq"

\* variant: the default branch returns without throwing
TExecutor_ctor_case_nothrow(execPolicy) ==
    IF execPolicy = "kSerial" THEN "seq"
    ELSE IF imt /\ execPolicy = "kMultithread" THEN "thread"
    ELSE IF execPolicy = "kMultiprocess" THEN "proc"
    ELSE "none"

\* the switch of the constructor: which backend object is created; "throw"
\* is the default branch
TExecutor_ctor_case(execPolicy) ==
    IF execPolicy = "kSerial" THEN "seq"
    ELSE IF imt /\ execPolicy = "kMultithread" THEN "thread"
    ELSE IF execPolicy = "kMultiprocess" THEN "proc"
    ELSE "throw"

\* TExecutor(execPolicy, nProcessingUnits)
TExecutor_ctor(execPolicy, nProcessingUnits) ==
    LET b == TExecutor_ctor_case(execPolicy)
    IN /\ exec.kind = "none"
       /\ CallerFree
       /\ exec' = IF b = "throw" THEN NoExec
                  ELSE [NoExec EXCEPT
                          !.kind = "facade",
                          !.fExecPolicy = execPolicy,
                          !.fSeqPool = IF b = "seq" THEN 1 ELSE NullPool,
                          !.fThreadPool = IF b = "thread"
                                          THEN EffectivePoolSize(nProcessingUnits)
                                          ELSE NullPool,
                          !.fProcPool = IF b = "proc"
                                        THEN EffectivePoolSize(nProcessingUnits)
                                        ELSE NullPool]
       /\ call' = [NoCall EXCEPT !.phase = "returned", !.api = "ctor",
                                 !.policy = execPolicy,
                                 !.nProcessingUnits = nProcessingUnits]
       /\ last' = IF b = "throw" THEN Err("invalid_argument") ELSE Ok(0)
       /\ UNCHANGED <<imt, implicitMT, tasks, arrived, invoked, prevFailed>>

\* variant: the default policy ignores the flag
TExecutor_default_policy_serial(flag) == "kSerial"

\* IsImplicitMTEnabled() ? kMultithread : kSerial
TExecutor_default_policy(flag) == IF flag THEN "kMultithread" ELSE "kSerial"

\* TExecutor(nProcessingUnits): delegates to TExecutor(execPolicy, nProcessingUnits)
TExecutor_default_ctor(nProcessingUnits) ==
    LET execPolicy == TExecutor_default_policy(implicitMT)
        b == TExecutor_ctor_case(execPolicy)
    IN /\ exec.kind = "none"
       /\ CallerFree
       /\ exec' = IF b = "throw" THEN NoExec
                  ELSE [NoExec EXCEPT
                          !.kind = "facade",
                          !.fExecPolicy = execPolicy,
                          !.fSeqPool = IF b = "seq" THEN 1 ELSE NullPool,
                          !.fThreadPool = IF b = "thread"
                                          THEN EffectivePoolSize(nProcessingUnits)
                                          ELSE NullPool]
       /\ call' = [NoCall EXCEPT !.phase = "returned", !.api = "ctor",
                                 !.policy = execPolicy, !.defaulted = TRUE,
                                 !.nProcessingUnits = nProcessingUnits]
       /\ last' = IF b = "throw" THEN Err("invalid_argument") ELSE Ok(0)
       /\ UNCHANGED <<imt, implicitMT, tasks, arrived, invoked, prevFailed>>

\* Policy(): return fExecPolicy
TExecutor_Policy(e) == e.fExecPolicy

Policy_call ==
    /\ exec.kind = "facade"
    /\ CallerFree
    /\ call' = [NoCall EXCEPT !.phase = "returned", !.api = "Policy",
                              !.policy = TExecutor_Policy(exec)]
    /\ last' = Ok(0)
    /\ UNCHANGED <<imt, implicitMT, exec, tasks, arrived, invoked, prevFailed>>

\* GetPoolSize(): the switch over fExecPolicy; poolSize stays 0 in the
\* default branch
TExecutor_GetPoolSize(e) ==
    IF e.fExecPolicy = "kSerial" THEN e.fSeqPool
    ELSE IF imt /\ e.fExecPolicy = "kMultithread" THEN e.fThreadPool
    ELSE IF e.fExecPolicy = "kMultiprocess" THEN e.fProcPool
    ELSE 0

GetPoolSize_call ==
    /\ exec.kind = "facade"
    /\ CallerFree
    /\ call' = [NoCall EXCEPT !.phase = "returned", !.api = "GetPoolSize"]
    /\ last' = Ok(TExecutor_GetPoolSize(exec))
    /\ UNCHANGED <<imt, implicitMT, exec, tasks, arrived, invoked, prevFailed>>

\* variant: the kMultiprocess case is missing from the switch
TExecutor_Map_noproc(policy) ==
    IF policy = "kSerial" THEN "seq"
    ELSE IF imt /\ policy = "kMultithread" THEN "thread"
    ELSE "none"

\* the switch of Map(func, args): the backend the call is forwarded to;
\* "none" is the default branch, which leaves res empty
TExecutor_Map(policy) ==
    IF policy = "kSerial" THEN "seq"
    ELSE IF imt /\ policy = "kMultithread" THEN "thread"
    ELSE IF policy = "kMultiprocess" THEN "proc"
    ELSE "none"

\* variant: the fallback passes nChunks where the item count belongs
TExecutor_MapChunked_count(policy, lo, hi, nChunks) ==
    IF imt /\ policy = "kMultithread"
    THEN [backend |-> "threadChunked", lo |-> lo, hi |-> hi, hint |-> nChunks]
    ELSE [backend |-> TExecutor_Map(policy), lo |-> lo, hi |-> Min(hi, lo + nChunks),
          hint |-> 0]

\* variant: the thread-pool branch drops the last item
TExecutor_MapChunked_short(policy, lo, hi, nChunks) ==
    IF imt /\ policy = "kMultithread"
    THEN [backend |-> "threadChunked", lo |-> lo, hi |-> Max(lo, hi - 1), hint |-> nChunks]
    ELSE [backend |-> TExecutor_Map(policy), lo |-> lo, hi |-> hi, hint |-> 0]

\* variant: every policy is handed the chunked Map
TExecutor_MapChunked_always(policy, lo, hi, nChunks) ==
    [backend |-> "threadChunked", lo |-> lo, hi |-> hi, hint |-> nChunks]

\* Map(func, args, redfunc, nChunks): the chunked Map of the thread pool
\* under kMultithread, otherwise Map(func, args)
TExecutor_MapChunked(policy, lo, hi, nChunks) ==
    IF imt /\ policy = "kMultithread"
    THEN [backend |-> "threadChunked", lo |-> lo, hi |-> hi, hint |-> nChunks]
    ELSE [backend |-> TExecutor_Map(policy), lo |-> lo, hi |-> hi, hint |-> 0]

\* The scheduled tasks of a backend's Map over the keys [lo, hi): one task
\* per chunk for the chunked Map, one per item otherwise
BackendTasks(plan, poolSize) ==
    IF plan.backend = "none" THEN <<>>
    ELSE IF plan.backend = "threadChunked"
    THEN LET cc == ChunkCount(plan.hi - plan.lo, poolSize, plan.hint)
         IN [k \in 1 .. cc |->
               LET r == ChunkRange(plan.lo, plan.hi, cc, k - 1) IN Task(r.lo, r.hi)]
    ELSE [k \in 1 .. (plan.hi - plan.lo) |-> Task(plan.lo + k - 1, plan.lo + k)]

StartFacade(c, plan) ==
    /\ exec.kind = "facade"
    /\ CallerFree
    /\ c.lo <= c.hi
    /\ call' = [c EXCEPT !.phase = "running", !.backend = plan.backend,
                         !.policy = exec.fExecPolicy]
    /\ tasks' = BackendTasks(plan, exec.fThreadPool)
    /\ UNCHANGED <<imt, implicitMT, exec, arrived, invoked, last, prevFailed>>

WorkSpec(form, lo, hi, args, failAt) ==
    [NoCall EXCEPT !.form = form, !.lo = lo, !.hi = hi, !.vec = args, !.failAt = failAt]

\* Map(func, nTimes), Map(func, TSeq), Map(func, vector)
TExecutor_Map_call(form, lo, hi, args, failAt) ==
    StartFacade([WorkSpec(form, lo, hi, args, failAt) EXCEPT !.api = "map"],
                [backend |-> TExecutor_Map(exec.fExecPolicy), lo |-> lo, hi |-> hi,
                 hint |-> 0])

\* variant: a non-zero chunk hint resizes the thread pool
TExecutor_MapReduce_call_resize(form, lo, hi, args, nChunks, failAt) ==
    LET plan == TExecutor_MapChunked(exec.fExecPolicy, lo, hi, nChunks)
    IN /\ exec.kind = "facade"
       /\ CallerFree
       /\ lo <= hi
       /\ call' = [WorkSpec(form, lo, hi, args, failAt) EXCEPT
                     !.api = "mapreduce", !.nChunks = nChunks, !.phase = "running",
                     !.backend = plan.backend, !.policy = exec.fExecPolicy]
       /\ exec' = [exec EXCEPT !.fThreadPool =
                      IF nChunks # 0 /\ @ # NullPool THEN nChunks ELSE @]
       /\ tasks' = BackendTasks(plan, exec.fThreadPool)
       /\ UNCHANGED <<imt, implicitMT, arrived, invoked, last, prevFailed>>

\* MapReduce(func, args, redfunc, nChunks): the Map part
TExecutor_MapReduce_call(form, lo, hi, args, nChunks, failAt) ==
    StartFacade([WorkSpec(form, lo, hi, args, failAt) EXCEPT !.api = "mapreduce",
                                                             !.nChunks = nChunks],
                TExecutor_MapChunked(exec.fExecPolicy, lo, hi, nChunks))

InFacadeCall == call.phase = "running" /\ call.api \in {"map", "mapreduce"}

\* the sequential executor runs the items in order in the calling thread
\* and stops at the first failure; pool workers run in any order
MayRun(k) ==
    /\ k <= Len(tasks)
    /\ tasks[k].pc = "queued"
    /\ call.backend = "seq" =>
          \A j \in 1 .. (k - 1) : tasks[j].pc = "done"

\* a worker runs task k: func on every key of the task; a chunk task folds
\* its results with redfunc
WorkerRun(k) ==
    /\ InFacadeCall
    /\ MayRun(k)
    /\ LET r == RunRange(call, tasks[k].lo, tasks[k].hi)
           v == IF call.backend = "threadChunked" THEN redfunc(r.results)
                ELSE r.results[1]
       IN /\ tasks' = [tasks EXCEPT ![k].pc = IF r.failed THEN "failed" ELSE "done",
                                    ![k].res = IF r.failed THEN Err("func_failed") ELSE Ok(v)]
          /\ arrived' = IF r.failed THEN arrived
                        ELSE Append(arrived, [idx |-> k, val |-> v])
          /\ invoked' = [key \in Keys |->
                           invoked[key] + Cardinality({p \in 1 .. Len(r.ran) : r.ran[p] = key})]
    /\ UNCHANGED <<imt, implicitMT, exec, call, last, prevFailed>>

\* a Map without reduction returns the outputs ordered by original index
CollectOrdered(arr) ==
    [k \in 1 .. Len(arr) |-> (CHOOSE a \in {arr[j] : j \in 1 .. Len(arr)} : a.idx = k).val]

\* the chunked Map collects the partial values as the tasks complete
CollectArrival(arr) == [j \in 1 .. Len(arr) |-> arr[j].val]

\* the backend's Map has come back to the caller
BackendJoined ==
    IF call.backend = "seq" THEN AnyFailed \/ PoolJoined ELSE PoolJoined

\* what Map hands back to MapReduce or to the caller
MapResult ==
    IF call.backend = "threadChunked" THEN CollectArrival(arrived)
    ELSE CollectOrdered(arrived)

\* variant: a failure inside Map is swallowed and the rest is reduced
TExecutor_MapReduce_value_swallow(failed, reslist) ==
    IF failed /\ reslist = <<>> THEN Ok(0) ELSE Reduce(reslist)

\* return Reduce(Map(func, args, redfunc, nChunks), redfunc): an exception
\* of Map passes through
TExecutor_MapReduce_value(failed, reslist) ==
    IF failed THEN Err("func_failed") ELSE Reduce(reslist)

\* variant: the result of the backend is not assigned to res
TExecutor_Map_value_unassigned(failed, reslist) ==
    IF failed THEN Err("func_failed") ELSE OkVec(<<>>)

\* return res
TExecutor_Map_value(failed, reslist) ==
    IF failed THEN Err("func_failed") ELSE OkVec(reslist)

TExecutor_Return ==
    /\ InFacadeCall
    /\ BackendJoined
    /\ last' = IF call.api = "map" THEN TExecutor_Map_value(AnyFailed, MapResult)
               ELSE TExecutor_MapReduce_value(AnyFailed, MapResult)
    /\ call' = [call EXCEPT !.phase = "returned"]
    /\ UNCHANGED <<imt, implicitMT, exec, tasks, arrived, invoked, prevFailed>>

NextFacade ==
    \/ \E p \in AllPolicies, n \in 0 .. MaxThreads : TExecutor_ctor(p, n)
    \/ \E n \in 0 .. MaxThreads : TExecutor_default_ctor(n)
    \/ Policy_call
    \/ GetPoolSize_call
    \/ \E n \in 0 .. MaxItems, f \in FailIndexes :
         TExecutor_Map_call("nTimes", 0, n, <<>>, f)
    \/ \E b \in 0 .. MaxItems, e \in 0 .. MaxItems, f \in FailIndexes :
         TExecutor_Map_call("seq", b, e, <<>>, f)
    \/ \E n \in 0 .. MaxItems, f \in FailIndexes :
         TExecutor_Map_call("vec", 0, n, VecOf(n), f)
    \/ \E n \in 0 .. MaxItems, h \in ChunkHints, f \in FailIndexes :
         TExecutor_MapReduce_call("nTimes", 0, n, <<>>, h, f)
    \/ \E b \in 0 .. MaxItems, e \in 0 .. MaxItems, h \in ChunkHints, f \in FailIndexes :
         TExecutor_MapReduce_call("seq", b, e, <<>>, h, f)
    \/ \E n \in 0 .. MaxItems, h \in ChunkHints, f \in FailIndexes :
         TExecutor_MapReduce_call("vec", 0, n, VecOf(n), h, f)
    \/ \E k \in 1 .. MaxItems : WorkerRun(k)
    \/ TExecutor_Return

----------------------------------------------------------------------------
(* ROOT::Fit::FitUtil::Evaluate<T> *)

MaxVecSize == 2        \* lanes of the vector type T: vecCore::VectorSize<T>()
MaxSetFunction == 2    \* allocating SetFunction calls on one IntegralEvaluator

\* executionPolicy: 0 Serial, 1 MultiThread, 2 MultiProcess, 3 stands for
\* every other value
ExecutionPolicies == {0, 1, 2, 3}

\* iWeight of EvalLogL: 0 no weights, 1 weights, 2 squared weights
WeightOptions == {0, 1, 2}

\* T{}: all lanes zero
ZeroT(vecSize) == [l \in 1 .. vecSize |-> 0]

\* operator+ of T, lane by lane
AddT(a, b) == [l \in 1 .. Len(a) |-> a[l] + b[l]]

\* LikelihoodAux(logv, w, w2)
LikelihoodAux(logv, w, w2) == [logvalue |-> logv, weight |-> w, weight2 |-> w2]

\* variant: the sum of the squared weights is not carried
LikelihoodAux_plus_noW2(a, l) ==
    LikelihoodAux(AddT(a.logvalue, l.logvalue), AddT(a.weight, l.weight), a.weight2)

\* LikelihoodAux::operator+
LikelihoodAux_plus(a, l) ==
    LikelihoodAux(AddT(a.logvalue, l.logvalue), AddT(a.weight, l.weight),
                  AddT(a.weight2, l.weight2))

\* LikelihoodAux::operator+=: the three members are updated in place
LikelihoodAux_plusAssign(a, l) ==
    [a EXCEPT !.logvalue = AddT(@, l.logvalue),
              !.weight = AddT(@, l.weight),
              !.weight2 = AddT(@, l.weight2)]

\* the weight of the data point at position k (1-based) of the data set
WeightOf(k) == (k % 2) + 1

\* mapFunction(i) of EvalChi2: loads the lanes at i * vecSize; with the
\* model value 0 and unit errors the term of a point is its value squared.
\* mapFunction(i) of EvalLogL (not extended): the log value of a point is
\* the integer stored for it; the weights are loaded at WeightsPtr(i).
mapFunction(kind, data, vecSize, iWeight, i) ==
    IF kind = "EvalChi2"
    THEN [l \in 1 .. vecSize |-> data[i * vecSize + l] * data[i * vecSize + l]]
    ELSE LET weight == [l \in 1 .. vecSize |-> WeightOf(i + l)]
             logval == [l \in 1 .. vecSize |->
                          LET y == data[i * vecSize + l]
                          IN IF iWeight = 0 THEN y
                             ELSE IF iWeight = 2 THEN y * weight[l] * weight[l]
                             ELSE y * weight[l]]
         IN IF iWeight = 2
            THEN LikelihoodAux(logval, weight, [l \in 1 .. vecSize |-> weight[l] * weight[l]])
            ELSE LikelihoodAux(logval, ZeroT(vecSize), ZeroT(vecSize))

\* the value-initialised result and the addition of the evaluator's result
\* type: T in EvalChi2, LikelihoodAux<T> in EvalLogL
ResultInit(kind, vecSize) ==
    IF kind = "EvalChi2" THEN ZeroT(vecSize)
    ELSE LikelihoodAux(ZeroT(vecSize), ZeroT(vecSize), ZeroT(vecSize))

ResultPlus(kind, a, b) ==
    IF kind = "EvalChi2" THEN AddT(a, b) ELSE LikelihoodAux_plus(a, b)

\* std::accumulate(first, last, init): init = init + *it, front to back
RECURSIVE accumulate(_, _, _)
accumulate(kind, objs, init) ==
    IF objs = <<>> THEN init
    ELSE accumulate(kind, Tail(objs), ResultPlus(kind, init, Head(objs)))

\* variant: the accumulation starts from the first element
redFunction_fromFirst(kind, vecSize, objs) ==
    accumulate(kind, objs, IF objs = <<>> THEN ResultInit(kind, vecSize) ELSE Head(objs))

\* redFunction: std::accumulate from the value-initialised element
redFunction(kind, vecSize, objs) == accumulate(kind, objs, ResultInit(kind, vecSize))

\* the results of mapFunction on the indices [lo, hi), in order
MapItems(kind, data, vecSize, iWeight, lo, hi) ==
    [j \in 1 .. (IF hi > lo THEN hi - lo ELSE 0) |->
        mapFunction(kind, data, vecSize, iWeight, lo + j - 1)]

\* setAutomaticChunking(nEvents) is declared only: any chunk count
setAutomaticChunking(nEvents) == ChunkHints

\* the thread count of the pool the evaluator declares: "pool" in EvalChi2
\* (default constructor: the hardware concurrency when there is no global
\* pool), "pool(4)" in EvalLogL
EvalLogL_poolThreads == 4
Evaluate_poolThreads(kind) ==
    IF kind = "EvalChi2" THEN HardwareConcurrency ELSE EvalLogL_poolThreads

\* the pool of one domain: MapReduce over [lo, hi) with redFunction; chunk,
\* fold every chunk, fold the partial results; no chunk is the empty-input
\* error
DomainPool_MapReduce(kind, data, vecSize, iWeight, lo, hi, poolSize, hint) ==
    LET n == IF hi > lo THEN hi - lo ELSE 0
        cc == ChunkCount(n, EffectivePoolSize(poolSize), hint)
        range(k) == ChunkRange(lo, hi, cc, k - 1)
        partials == [k \in 1 .. cc |->
                       redFunction(kind, vecSize,
                                   MapItems(kind, data, vecSize, iWeight,
                                            range(k).lo, range(k).hi))]
    IN [st |-> IF cc = 0 THEN "error" ELSE "ok",
        res |-> redFunction(kind, vecSize, partials),
        ran |-> [k \in Keys |->
                   Cardinality({j \in 1 .. cc : range(j).lo <= k /\ k < range(j).hi})]]

\* variant: every domain is handed the whole sequence
TThreadExecutor_MapReduce_TSeq_whole(kind, data, vecSize, iWeight, e, chunks, fNDomains) ==
    LET dom == [d \in 1 .. fNDomains |->
                  DomainPool_MapReduce(kind, data, vecSize, iWeight, 0, e,
                                       Evaluate_poolThreads(kind) \div fNDomains,
                                       chunks \div fNDomains)]
    IN [st |-> IF \E d \in 1 .. fNDomains : dom[d].st = "error" THEN "error" ELSE "ok",
        res |-> redFunction(kind, vecSize, [d \in 1 .. fNDomains |-> dom[d].res]),
        ran |-> [k \in Keys |-> SumSeq([d \in 1 .. fNDomains |-> dom[d].ran[k]])]]

\* pool.MapReduce(mapFunction, TSeq<unsigned>(0, e), redFunction, chunks) on
\* the thread executor, which is the NUMA executor (second definition):
\* domain i is handed the indices [max(0, i * stride), min((i + 1) * stride,
\* e)) and the hint chunks / fNDomains; the results of the domains are
\* folded with redFunction
TThreadExecutor_MapReduce_TSeq(kind, data, vecSize, iWeight, e, chunks, fNDomains) ==
    LET stride == (e + fNDomains - 1) \div fNDomains
        dom == [d \in 1 .. fNDomains |->
                  DomainPool_MapReduce(kind, data, vecSize, iWeight,
                                       Max(0, (d - 1) * stride), Min(d * stride, e),
                                       Evaluate_poolThreads(kind) \div fNDomains,
                                       chunks \div fNDomains)]
    IN [st |-> IF \E d \in 1 .. fNDomains : dom[d].st = "error" THEN "error" ELSE "ok",
        res |-> redFunction(kind, vecSize, [d \in 1 .. fNDomains |-> dom[d].res]),
        ran |-> [k \in Keys |-> SumSeq([d \in 1 .. fNDomains |-> dom[d].ran[k]])]]

\* The if / else-if chain over executionPolicy of EvalChi2 and EvalLogL:
\* the accumulated value, the invocations of mapFunction per index, whether
\* Error() has reported, whether the pool has thrown.  Policy 2 is commented
\* out in EvalChi2 and an empty branch in EvalLogL.
Evaluate_policy(kind, data, vecSize, iWeight, executionPolicy, chunks, fNDomains) ==
    LET e == Len(data) \div vecSize
        none == [k \in Keys |-> 0]
    IN IF executionPolicy = 0
       THEN [st |-> "ok",
             res |-> accumulate(kind, MapItems(kind, data, vecSize, iWeight, 0, e),
                                ResultInit(kind, vecSize)),
             ran |-> [k \in Keys |-> IF k < e THEN 1 ELSE 0], logged |-> FALSE]
       ELSE IF executionPolicy = 1
       THEN LET r == TThreadExecutor_MapReduce_TSeq(kind, data, vecSize, iWeight, e,
                                                    chunks, fNDomains)
            IN [st |-> r.st, res |-> r.res, ran |-> r.ran, logged |-> FALSE]
       ELSE IF executionPolicy = 2 /\ kind = "EvalLogL"
       THEN [st |-> "ok", res |-> ResultInit(kind, vecSize), ran |-> none,
             logged |-> FALSE]
       ELSE [st |-> "ok", res |-> ResultInit(kind, vecSize), ran |-> none,
             logged |-> TRUE]

\* the value of nPoints when the evaluator returns: nPoints = n at the end
\* of EvalChi2, nPoints = 0 at the end of EvalLogL
Evaluate_nPoints(kind, n) == IF kind = "EvalChi2" THEN n ELSE 0

\* return res.sum() in EvalChi2; the lanes of logl_v are added up and
\* -logl is returned in EvalLogL
Evaluate_value(kind, res) ==
    IF kind = "EvalChi2" THEN SumSeq(res) ELSE 0 - SumSeq(res.logvalue)

\* nPoints when the if / else-if chain is done, from the value start it had
\* before: the serial loop counts every invocation; the workers of the pool
\* increment the shared counter without synchronisation, so that of the
\* increments of concurrent invocations any number but the last can be lost
Evaluate_counted(executionPolicy, start, mapCalls) ==
    IF executionPolicy = 1 /\ mapCalls >= 2
    THEN {start + c : c \in 1 .. mapCalls}
    ELSE {start + mapCalls}

\* IntegralEvaluator: pointers are 0 (null) or the number of an allocation;
\* heap holds the allocations of the evaluator that are live, allocated
\* counts the allocations it has made.

\* dimensions of the functions handed to SetFunction: 2 stands for every
\* dimension above 1, 0 is a function without coordinates
Dimensions == {0, 1, 2}

\* SetFunction(func, p): for dimension 1 the wrapper and the one-dim
\* integrator are allocated, above 1 the multi-dim ones; the pointers are
\* assigned without looking at what they held
SetFunction(e, dim, p) ==
    LET a == e.allocated
    IN IF dim = 1
       THEN [e EXCEPT !.fParams = p, !.fDim = dim,
                      !.fFunc1Dim = a + 1, !.fIg1Dim = a + 2,
                      !.heap = @ \cup {a + 1, a + 2}, !.allocated = a + 2]
       ELSE IF dim > 1
       THEN [e EXCEPT !.fParams = p, !.fDim = dim,
                      !.fFuncNDim = a + 1, !.fIgNDim = a + 2,
                      !.heap = @ \cup {a + 1, a + 2}, !.allocated = a + 2]
       ELSE [e EXCEPT !.fParams = p, !.fDim = dim]

\* IntegralEvaluator(func, p, useIntegral): all members 0, then SetFunction
\* when useIntegral.  assert(fDim > 0) ends the process in a build with
\* assertions and is nothing in a build with NDEBUG.
IntegralEvaluator_ctor(dim, p, useIntegral, asserts) ==
    LET e == [NoExec EXCEPT !.kind = "IntegralEvaluator"]
        aborted == useIntegral /\ dim = 0 /\ asserts
    IN /\ exec.kind = "none"
       /\ CallerFree
       /\ asserts => (useIntegral /\ dim = 0)
       /\ exec' = IF aborted THEN NoExec
                  ELSE IF useIntegral THEN SetFunction(e, dim, p) ELSE e
       /\ call' = [NoCall EXCEPT !.phase = "returned", !.api = "IntegralEvaluator",
                                 !.useIntegral = useIntegral]
       /\ last' = IF aborted THEN Err("assert") ELSE Ok(0)
       /\ UNCHANGED <<imt, implicitMT, tasks, arrived, invoked, prevFailed>>

\* igEval.SetFunction(func, p) on the object that exists
IntegralEvaluator_SetFunction(dim, p, asserts) ==
    LET aborted == dim = 0 /\ asserts
    IN /\ exec.kind = "IntegralEvaluator"
       /\ CallerFree
       /\ asserts => dim = 0
       /\ exec.allocated < 2 * MaxSetFunction
       /\ exec' = IF aborted THEN NoExec ELSE SetFunction(exec, dim, p)
       /\ call' = [NoCall EXCEPT !.phase = "returned", !.api = "SetFunction"]
       /\ last' = IF aborted THEN Err("assert") ELSE Ok(0)
       /\ UNCHANGED <<imt, implicitMT, tasks, arrived, invoked, prevFailed>>

\* SetParameters(p): copies just the pointer
IntegralEvaluator_SetParameters(p) ==
    /\ exec.kind = "IntegralEvaluator"
    /\ CallerFree
    /\ exec' = [exec EXCEPT !.fParams = p]
    /\ call' = [NoCall EXCEPT !.phase = "returned", !.api = "SetParameters"]
    /\ last' = Ok(0)
    /\ UNCHANGED <<imt, implicitMT, tasks, arrived, invoked, prevFailed>>

\* ~IntegralEvaluator(): deletes what the four pointers hold; the call
\* record keeps the allocations of the object that are still live
IntegralEvaluator_dtor ==
    /\ exec.kind = "IntegralEvaluator"
    /\ CallerFree
    /\ exec' = NoExec
    /\ call' = [NoCall EXCEPT
                  !.phase = "returned", !.api = "~IntegralEvaluator",
                  !.heap = exec.heap \ {exec.fIg1Dim, exec.fIgNDim,
                                        exec.fFunc1Dim, exec.fFuncNDim}]
    /\ last' = Ok(0)
    /\ UNCHANGED <<imt, implicitMT, tasks, arrived, invoked, prevFailed>>

\* an evaluator can be called: no executor object of the driver exists
\* and no call is in progress
EvaluatorCallable == imt /\ exec.kind = "none" /\ CallerFree

\* The evaluator kind on the data up to the end of its if / else-if chain.
\* EvalChi2 sets nPoints = 0 first and reports unsupported fit options with
\* Error(), which returns; EvalLogL counts on from the caller's nPoints.
\* The pool of policy 1 is a local ROOT::TThreadExecutor, the NUMA executor:
\* with its first definition the MapReduce of the pool does not return
\* (DomainNest), with its second definition the domain tasks are threads of
\* this process.  An exception of the pool leaves the evaluator.
Evaluate_call(kind, data, vecSize, executionPolicy, nChunks, fNDomains, opt, nPoints0, def) ==
    /\ EvaluatorCallable
    /\ kind = "EvalChi2" => opt \in {0, 1}
    /\ executionPolicy # 1 => def = 2 /\ fNDomains = 1
    /\ \E chunks \in (IF nChunks # 0 THEN {nChunks}
                      ELSE setAutomaticChunking(Len(data) \div vecSize)) :
         LET iWeight == IF kind = "EvalChi2" THEN 0 ELSE opt
             fitOpt == kind = "EvalChi2" /\ opt = 1
             start == IF kind = "EvalChi2" THEN 0 ELSE nPoints0
             nested == executionPolicy = 1 /\ def = 1
             r == Evaluate_policy(kind, data, vecSize, iWeight, executionPolicy,
                                  chunks, fNDomains)
             mapCalls == SumSeq([k \in 1 .. MaxItems |-> r.ran[k - 1]])
             c == [NoCall EXCEPT
                     !.api = kind, !.vec = data, !.hi = Len(data) \div vecSize,
                     !.vecSize = vecSize, !.executionPolicy = executionPolicy,
                     !.nChunks = nChunks, !.iWeight = iWeight, !.fitOpt = fitOpt,
                     !.nPoints0 = start]
         IN IF nested
            THEN /\ call' = [c EXCEPT !.phase = "running", !.backend = "nested",
                                      !.nPoints = start, !.logged = fitOpt]
                 /\ last' = NoOutcome
                 /\ invoked' = NoneInvoked
            ELSE \E counted \in Evaluate_counted(executionPolicy, start, mapCalls) :
                 /\ call' = [c EXCEPT !.phase = IF r.st = "ok" THEN "running"
                                                ELSE "returned",
                                      !.res = r.res, !.nPoints = counted,
                                      !.logged = r.logged \/ fitOpt]
                 /\ last' = IF r.st = "ok" THEN NoOutcome ELSE Err("empty_input")
                 /\ invoked' = r.ran
    /\ UNCHANGED <<imt, implicitMT, exec, tasks, arrived, prevFailed>>

Evaluate_EvalChi2(data, vecSize, executionPolicy, nChunks, fNDomains, fitOpt, def) ==
    Evaluate_call("EvalChi2", data, vecSize, executionPolicy, nChunks, fNDomains,
                  IF fitOpt THEN 1 ELSE 0, 0, def)

Evaluate_EvalLogL(data, vecSize, iWeight, executionPolicy, nChunks, fNDomains, nPoints0, def) ==
    Evaluate_call("EvalLogL", data, vecSize, executionPolicy, nChunks, fNDomains,
                  iWeight, nPoints0, def)

\* the evaluator is past its if / else-if chain
InEvaluator ==
    /\ call.phase = "running"
    /\ call.api \in {"EvalChi2", "EvalLogL"}
    /\ call.backend # "nested"

\* the end of the evaluator: nPoints = n; return res.sum() in EvalChi2,
\* nPoints = 0; return -logl in EvalLogL
Evaluate_Return ==
    /\ InEvaluator
    /\ call' = [call EXCEPT !.phase = "returned",
                            !.nPoints = Evaluate_nPoints(call.api, Len(call.vec))]
    /\ last' = Ok(Evaluate_value(call.api, call.res))
    /\ UNCHANGED <<imt, implicitMT, exec, tasks, arrived, invoked, prevFailed>>

NextFitUtil ==
    \/ /\ EvaluatorCallable
       /\ \E n \in 0 .. MaxItems, v \in 1 .. MaxVecSize, p \in ExecutionPolicies,
             h \in ChunkHints, d \in 1 .. MaxDomains, o \in BOOLEAN, def \in {1, 2} :
            Evaluate_EvalChi2(VecOf(n), v, p, h, d, o, def)
    \/ /\ EvaluatorCallable
       /\ \E n \in 0 .. MaxItems, v \in 1 .. MaxVecSize, w \in WeightOptions,
             p \in ExecutionPolicies, h \in ChunkHints, d \in 1 .. MaxDomains,
             c \in {0, 1}, def \in {1, 2} :
            Evaluate_EvalLogL(VecOf(n), v, w, p, h, d, c, def)
    \/ Evaluate_Return
    \/ \E dim \in Dimensions, p \in {0, 1}, u \in BOOLEAN, a \in BOOLEAN :
         IntegralEvaluator_ctor(dim, p, u, a)
    \/ \E dim \in Dimensions, p \in {0, 1}, a \in BOOLEAN :
         IntegralEvaluator_SetFunction(dim, p, a)
    \/ \E p \in {0, 1} : IntegralEvaluator_SetParameters(p)
    \/ IntegralEvaluator_dtor

Next ==
    \/ NextNUMA
    \/ NextFacade
    \/ NextFitUtil
    \/ Acknowledge
    \/ Destroy
    \/ EnableImplicitMT
    \/ DisableImplicitMT

Spec == Init /\ [][Next]_vars

\* the steps of a call that the caller waits for: the workers of the pools
\* and the return of the blocking call
WorkerStep ==
    \/ \E i \in 0 .. (MaxDomains - 1) : DomainPin(i)
    \/ \E i \in 0 .. (MaxDomains - 1) : DomainRun(i)
    \/ \E i \in 0 .. (MaxDomains - 1) : DomainNest(i)
    \/ \E i \in 0 .. (MaxDomains - 1) : DomainUnpin(i)
    \/ TNUMAExecutor_Return
    \/ \E k \in 1 .. MaxItems : WorkerRun(k)
    \/ TExecutor_Return

\* chunk hints of the calls whose termination is checked: automatic, two chunks
SyncHints == {0, 2}

\* the executors under MapReduce calls only: construction, the MapReduce
\* forms of both classes, the steps of their workers, destruction
NextSync ==
    \/ \E n \in 0 .. MaxThreads, d \in 1 .. MaxDomains, def \in {1, 2}, a \in BOOLEAN :
         TNUMAExecutor_ctor(n, d, def, a)
    \/ \E n \in 0 .. MaxItems, h \in SyncHints, f \in FailIndexes :
         TNUMAExecutor_MapReduce_nTimes(n, h, f)
    \/ \E n \in 0 .. MaxItems, h \in SyncHints, f \in FailIndexes :
         TNUMAExecutor_MapReduce_vector(VecOf(n), h, f)
    \/ \E b \in 0 .. MaxItems, e \in 0 .. MaxItems, h \in SyncHints, f \in FailIndexes :
         TNUMAExecutor_MapReduce_TSeq(b, e, h, f)
    \/ \E p \in AllPolicies, n \in 0 .. MaxThreads : TExecutor_ctor(p, n)
    \/ \E n \in 0 .. MaxItems, h \in SyncHints, f \in FailIndexes :
         TExecutor_MapReduce_call("nTimes", 0, n, <<>>, h, f)
    \/ \E b \in 0 .. MaxItems, e \in 0 .. MaxItems, h \in SyncHints, f \in FailIndexes :
         TExecutor_MapReduce_call("seq", b, e, <<>>, h, f)
    \/ \E n \in 0 .. MaxItems, h \in SyncHints, f \in FailIndexes :
         TExecutor_MapReduce_call("vec", 0, n, VecOf(n), h, f)
    \/ WorkerStep
    \/ Acknowledge
    \/ Destroy

\* the work function terminates and the operating system keeps scheduling
\* the workers of a call and its blocked caller
SpecFair == Init /\ [][NextSync]_vars /\ WF_vars(WorkerStep)

----------------------------------------------------------------------------
(* Properties *)

RECURSIVE SumTo(_)
SumTo(k) == IF k < 0 THEN 0 ELSE invoked[k] + SumTo(k - 1)
TotalInvoked == SumTo(MaxItems - 1)

Returned(api) == call.phase = "returned" /\ call.api = api

\* func fails on a work item of the call
FailureInjected == call.failAt >= call.lo /\ call.failAt < call.hi

\* func ran exactly once for every key of [lo, hi) and for no other key
ExactlyOnce(lo, hi) ==
    \A k \in Keys : invoked[k] = IF k >= lo /\ k < hi THEN 1 ELSE 0

\* SequentialExecutor: Map in increasing order in the calling thread, then
\* one reduction pass over the full result sequence
SequentialExecutor_Map(c) ==
    [j \in 1 .. (c.hi - c.lo) |-> func(c.form, ItemAt(c, c.lo + j - 1))]
SequentialExecutor_MapReduce(c) == Reduce(SequentialExecutor_Map(c))

\* C1: a TNUMAExecutor::MapReduce(func, nTimes, redfunc, nChunks) call that
\* returns a value has invoked func exactly nTimes over all domain tasks, and
\* with func returning 1 and the integer sum the value is nTimes.
C1_ExactlyNTimes ==
    (Returned("numa") /\ call.form = "nTimes" /\ last.st = "ok") =>
        /\ TotalInvoked = call.hi
        /\ last.val = call.hi

\* C2: a TNUMAExecutor::MapReduce over TSeq [b, e) that returns a value has
\* invoked func exactly once for every index of [b, e) and for no other
\* index, whatever the domain count, and the value is the sum over [b, e).
C2_SeqExactlyOnce ==
    (Returned("numa") /\ call.form = "seq" /\ last.st = "ok") =>
        /\ ExactlyOnce(call.lo, call.hi)
        /\ last = SequentialExecutor_MapReduce(call)

\* C3: in TNUMAExecutor::MapReduce over a vector of length n >= 1 no domain
\* task reads a sub-range that splitData did not produce, and when func
\* never fails every element is passed to func exactly once.
C3_VecExactlyOnce ==
    (call.api = "numa" /\ call.form = "vec" /\ call.hi >= 1) =>
        /\ \A k \in 1 .. Len(tasks) : ~tasks[k].oob
        /\ (call.phase = "returned" /\ ~FailureInjected) => ExactlyOnce(0, call.hi)

\* C4: TExecutor::MapReduce(func, nTimes, redfunc, nChunks) with the integer
\* sum returns, under each execution policy, a value that does not depend on
\* the chunk hint nChunks (0 = automatic included): it is the value of one
\* reduction over the nTimes results.
C4_ChunkCountInvariance ==
    (Returned("mapreduce") /\ call.form = "nTimes" /\ ~FailureInjected) =>
        last = SequentialExecutor_MapReduce([call EXCEPT !.nChunks = 0])

\* two chunk tasks under kMultithread for the hint 2, completed out of order
C4_Witness ==
    /\ Returned("mapreduce") /\ call.form = "nTimes" /\ ~FailureInjected
    /\ call.policy = "kMultithread" /\ call.nChunks = 2 /\ call.hi = 3
    /\ Len(tasks) = 2 /\ arrived[1].idx = 2
    /\ last = Ok(3)

\* C5: TExecutor::MapReduce over a TSeq returns the same result under
\* kSerial, kMultithread and kMultiprocess: under every policy it is the
\* result of the sequential executor on that input.
C5_BackendEquivalence ==
    \A p \in Policies :
        (Returned("mapreduce") /\ call.form = "seq" /\ call.policy = p
            /\ ~FailureInjected) =>
        last = SequentialExecutor_MapReduce(call)

C5_Witness ==
    /\ Returned("mapreduce") /\ call.form = "seq" /\ ~FailureInjected
    /\ call.policy = "kMultithread" /\ call.lo = 1 /\ call.hi = 3
    /\ Len(tasks) = 2
    /\ last = Ok(3)

\* C6: TExecutor::Map(func, vector) returns a vector whose k-th element is
\* func of the k-th input element, under every policy and for every
\* completion order of the workers.
C6_MapOrder ==
    (Returned("map") /\ call.form = "vec" /\ ~FailureInjected) =>
        /\ last.st = "ok"
        /\ Len(last.vec) = Len(call.vec)
        /\ \A k \in 1 .. Len(call.vec) : last.vec[k] = func("vec", call.vec[k])

\* three elements, the last one completed first
C6_Witness ==
    /\ Returned("map") /\ call.form = "vec" /\ ~FailureInjected
    /\ call.policy \in {"kMultithread", "kMultiprocess"}
    /\ Len(call.vec) = 3 /\ arrived[1].idx = 3
    /\ last.st = "ok"

\* C7: Map over the sequence [0, N) (and Map(func, N)) on a constructed
\* TExecutor returns exactly N results and visits every index exactly once,
\* under every policy and for every N >= 0; the result is empty only for N = 0.
C7_MapComplete ==
    (Returned("map") /\ call.form \in {"seq", "nTimes"} /\ call.lo = 0
        /\ ~FailureInjected) =>
        /\ last.st = "ok"
        /\ Len(last.vec) = call.hi
        /\ ExactlyOnce(0, call.hi)
        /\ call.hi > 0 => last.vec # <<>>

C7_Witness ==
    /\ Returned("map") /\ call.form = "seq" /\ call.lo = 0 /\ call.hi = 3
    /\ ~FailureInjected
    /\ call.policy = "kMultiprocess"
    /\ Len(last.vec) = 3

\* the build does not provide the policy
Unavailable(policy) == policy \notin Policies \/ (policy = "kMultithread" /\ ~imt)

\* C8: constructing a TExecutor with a policy the build does not provide
\* throws invalid_argument and leaves no executor object; every executor
\* object that exists has a provided policy and exactly the backend object
\* of that policy.
C8_CtorRejectsUnavailable ==
    /\ exec.kind = "facade" =>
          /\ ~Unavailable(exec.fExecPolicy)
          /\ (exec.fSeqPool # NullPool) <=> (exec.fExecPolicy = "kSerial")
          /\ (exec.fThreadPool # NullPool) <=> (exec.fExecPolicy = "kMultithread")
          /\ (exec.fProcPool # NullPool) <=> (exec.fExecPolicy = "kMultiprocess")
    /\ Returned("ctor") =>
          IF Unavailable(call.policy)
          THEN last = Err("invalid_argument") /\ exec.kind = "none"
          ELSE last.st = "ok" /\ exec.kind = "facade" /\ exec.fExecPolicy = call.policy

\* kMultithread requested in a build without R__USE_IMT
C8_Witness ==
    /\ Returned("ctor") /\ call.policy = "kMultithread" /\ ~imt
    /\ last = Err("invalid_argument")
    /\ exec.kind = "none"

\* C9: a work function that fails on one index makes the MapReduce call fail
\* under every execution policy (and in the count form of the NUMA executor),
\* and the next Map/MapReduce call on the same TExecutor completes with the
\* correct result.
C9_FailureIsCallScoped ==
    /\ (Returned("mapreduce") /\ FailureInjected) => last.st = "error"
    /\ (Returned("numa") /\ call.form = "nTimes" /\ FailureInjected) => last.st = "error"
    /\ (prevFailed /\ Returned("map") /\ ~FailureInjected) =>
          last = OkVec(SequentialExecutor_Map(call))
    /\ (prevFailed /\ Returned("mapreduce") /\ ~FailureInjected) =>
          /\ last = SequentialExecutor_MapReduce(call)
          /\ call.hi > call.lo => last.st = "ok"

\* a MapReduce that succeeds after a call in which func failed
C9_Witness ==
    /\ prevFailed
    /\ Returned("mapreduce") /\ ~FailureInjected
    /\ call.policy = "kMultithread" /\ call.hi - call.lo = 3
    /\ last.st = "ok"

\* C10: when a call of a pooled backend or of the NUMA executor returns or
\* throws, every chunk task and domain task of the call has finished; a
\* failure is delivered only after the siblings of the failed task are done.
C10_SiblingsAwaited ==
    (call.phase = "returned" /\ call.api \in {"numa", "map", "mapreduce"}
        /\ call.backend # "seq") =>
        \A k \in 1 .. Len(tasks) : Finished(tasks[k])

\* a domain task failed and the call threw after its sibling had returned
C10_Witness ==
    /\ Returned("numa") /\ call.form = "seq"
    /\ last = Err("func_failed")
    /\ \E k \in 1 .. Len(tasks) : tasks[k].pc = "failed"
    /\ \E k \in 1 .. Len(tasks) : tasks[k].pc = "done"

\* the work of a returned call: every task has finished; the sequential
\* executor, which runs in the calling thread, has spawned nothing it left
AllWorkCompleted ==
    \A k \in 1 .. Len(tasks) :
        \/ Finished(tasks[k])
        \/ /\ call.backend = "seq"
           /\ tasks[k].pc = "queued"
           /\ \E j \in 1 .. (k - 1) : tasks[j].pc = "failed"

C12_EmptyInputError ==
    (call.api \in {"numa", "mapreduce"} /\ call.hi = call.lo) =>
        /\ \A k \in 1 .. Len(tasks) : ~tasks[k].oob
        /\ call.phase = "returned" => last = Err("empty_input")

\* C13: no step between two states in which the executor object exists
\* changes what Policy(), GetPoolSize() and GetNUMADomains() return, nor the
\* per-domain thread count: Map, MapReduce and the getters leave them alone.
C13_FixedAfterConstruction ==
    [][(exec.kind # "none" /\ exec'.kind # "none") =>
          /\ exec'.kind = exec.kind
          /\ TExecutor_Policy(exec') = TExecutor_Policy(exec)
          /\ TExecutor_GetPoolSize(exec') = TExecutor_GetPoolSize(exec)
          /\ TNUMAExecutor_GetNUMADomains(exec') = TNUMAExecutor_GetNUMADomains(exec)
          /\ exec'.fDomainNThreads = exec.fDomainNThreads]_vars

\* GetPoolSize() after a MapReduce call with a chunk hint has returned on a
\* thread pool of two workers
C13_Witness ==
    /\ Returned("GetPoolSize") /\ prevFailed
    /\ exec.fExecPolicy = "kMultithread"
    /\ last = Ok(2)

\* C14: the constructor without a policy selects kMultithread exactly when
\* the implicit-multithreading flag is on at construction and kSerial
\* otherwise, and a later change of the flag leaves an existing executor and
\* its policy as they are.
C14_DefaultPolicy ==
    /\ []((Returned("ctor") /\ call.defaulted) =>
            /\ exec.kind = "facade"
            /\ TExecutor_Policy(exec) = IF implicitMT THEN "kMultithread" ELSE "kSerial")
    /\ [][implicitMT' # implicitMT => exec' = exec]_vars

\* default construction with the flag on; the flag is switched off while the
\* kMultithread executor exists
C14_Witness ==
    \/ /\ Returned("ctor") /\ call.defaulted /\ implicitMT
       /\ exec.fExecPolicy = "kMultithread"
    \/ /\ Returned("Policy") /\ ~implicitMT /\ call.policy = "kMultithread"

\* C15: the Map part of MapReduce(func, args, redfunc, nChunks) is the
\* chunked Map of the thread pool (one partial result per chunk) only under
\* kMultithread; under kSerial and kMultiprocess it is the plain Map of the
\* policy's backend: one result per item, whatever nChunks is, and the call
\* returns one reduction over the per-item results.
C15_ChunkedOnlyMultithread ==
    (Returned("mapreduce") /\ ~FailureInjected) =>
        IF call.policy = "kMultithread"
        THEN /\ call.backend = "threadChunked"
             /\ Len(MapResult) = ChunkCount(call.hi - call.lo, exec.fThreadPool,
                                            call.nChunks)
        ELSE /\ call.backend = (IF call.policy = "kSerial" THEN "seq" ELSE "proc")
             /\ MapResult = SequentialExecutor_Map(call)
             /\ last = Reduce(SequentialExecutor_Map(call))

\* kMultiprocess with a chunk hint of 2 over three items: three results
C15_Witness ==
    /\ Returned("mapreduce") /\ ~FailureInjected
    /\ call.policy = "kMultiprocess" /\ call.nChunks = 2
    /\ call.hi - call.lo = 3
    /\ Len(MapResult) = 3

\* C16: for kSerial and kMultiprocess the constructed backend and the value
\* of GetPoolSize() are those of a construction with nProcessingUnits = 0,
\* whatever nProcessingUnits was handed to the constructor.
C16_UnitsOnlyForMultithread ==
    (Returned("ctor") /\ last.st = "ok"
        /\ call.policy \in {"kSerial", "kMultiprocess"}) =>
        TExecutor_GetPoolSize(exec) =
            IF call.policy = "kSerial" THEN 1 ELSE EffectivePoolSize(0)

\* the value and the invocation count of the serial loop on the call's data
SerialValue ==
    Evaluate_value(call.api,
                   accumulate(call.api,
                              MapItems(call.api, call.vec, call.vecSize, call.iWeight,
                                       0, call.hi),
                              ResultInit(call.api, call.vecSize)))

EvaluatorReturned == call.phase = "returned" /\ call.api \in {"EvalChi2", "EvalLogL"}

\* C17: under each of the advertised policies 0, 1, 2, the value EvalChi2
\* and EvalLogL return is the value of the serial policy on the same data,
\* and a value returned for data with at least one work item was computed
\* from invocations of the map function.
C17_AdvertisedPoliciesAgree ==
    (EvaluatorReturned /\ call.executionPolicy \in {0, 1, 2} /\ last.st = "ok") =>
        /\ last = Ok(SerialValue)
        /\ call.hi > 0 => TotalInvoked > 0

\* C18: an evaluator called with a policy it does not implement (anything
\* but 0 and 1) does not return a value: the call ends in an error.
C18_UnknownPolicyFails ==
    (EvaluatorReturned /\ call.executionPolicy \notin {0, 1}) => last.st = "error"

\* C19: when EvalLogL returns a value under an accepted policy, nPoints is
\* the number of data points the evaluation used: vecSize points for every
\* invocation of the map function.
C19_LogLPoints ==
    (Returned("EvalLogL") /\ last.st = "ok" /\ call.executionPolicy \in {0, 1}) =>
        call.nPoints = call.vecSize * TotalInvoked

\* C20: when EvalChi2 returns, nPoints is the number of data points the map
\* function evaluated: vecSize times the number of its invocations, for
\* every data size and every value of executionPolicy.
C20_Chi2Points ==
    (Returned("EvalChi2") /\ last.st = "ok") =>
        call.nPoints = call.vecSize * TotalInvoked

InVectorCall == call.api = "numa" /\ call.form = "vec"

\* C21: splitData returns exactly fNDomains sub-ranges for every vector
\* length n >= 0, so that dataRanges[i] exists for every domain index i.
C21_SplitCount ==
    InVectorCall => Len(call.dataRanges) = exec.fNDomains

\* C22: for a vector of length n >= 1 the sub-ranges of splitData start at 0,
\* each starts where the one before ends, the last ends at n, every one but
\* the last has exactly stride = ceil(n / D) elements, and the last has at
\* least one and at most stride elements.
C22_SplitContiguous ==
    (InVectorCall /\ call.hi >= 1) =>
        LET r == call.dataRanges
            stride == (call.hi + exec.fNDomains - 1) \div exec.fNDomains
        IN /\ Len(r) >= 1
           /\ r[1].lo = 0
           /\ r[Len(r)].hi = call.hi
           /\ \A k \in 1 .. (Len(r) - 1) :
                 /\ r[k + 1].lo = r[k].hi
                 /\ r[k].hi - r[k].lo = stride
           /\ r[Len(r)].hi - r[Len(r)].lo >= 1
           /\ r[Len(r)].hi - r[Len(r)].lo <= stride

\* three elements over two domains: a full sub-range and a shorter last one
C22_Witness ==
    /\ InVectorCall /\ call.hi = 3 /\ exec.fNDomains = 2
    /\ call.dataRanges = <<[lo |-> 0, hi |-> 2], [lo |-> 2, hi |-> 3]>>

\* C23: every per-domain sequence of the TSeq form that a domain-local pool
\* was handed has its begin less than or equal to its end.
C23_SeqWellFormed ==
    (call.api = "numa" /\ call.form = "seq") =>
        \A k \in 1 .. Len(tasks) :
            tasks[k].pc \in {"ran", "failed", "done"} => tasks[k].lo <= tasks[k].hi

\* the domain task k of the call is at one of the given statements
TaskAt(k, pcs) == tasks[k].pc \in pcs

\* C24: a domain task is pinned to its own node i from numa_run_on_node(i)
\* until its domain-local pool has run, its affinity is the all-nodes mask
\* before the pin and after a normal return, and its statements are taken
\* in the order pin, run, unpin, return.
C24_PinRunUnpin ==
    /\ [](call.api = "numa" =>
            \A k \in 1 .. Len(tasks) :
                /\ TaskAt(k, {"queued", "done"}) => tasks[k].pin = AllNodes
                /\ TaskAt(k, {"pinned", "ran", "nested"}) => tasks[k].pin = k - 1)
    /\ [][(call.api = "numa" /\ call' = call) =>
            \A k \in 1 .. Len(tasks) :
                tasks'[k].pc # tasks[k].pc =>
                    \/ tasks[k].pc = "queued" /\ tasks'[k].pc = "pinned"
                    \/ tasks[k].pc = "pinned" /\ tasks'[k].pc \in {"ran", "failed", "nested"}
                    \/ tasks[k].pc = "ran" /\ tasks'[k].pc = "done"]_vars

\* domain 0 has returned unpinned while domain 1 has run under its pin
C24_Witness ==
    /\ InNUMACall /\ Len(tasks) = 2
    /\ tasks[1].pc = "done" /\ tasks[1].pin = AllNodes
    /\ tasks[2].pc = "ran" /\ tasks[2].pin = 1

\* C25: a domain task that was left by a failure of the work function or of
\* the domain-local MapReduce has the default affinity again.
C25_RestoreOnFailure ==
    call.api = "numa" =>
        \A k \in 1 .. Len(tasks) : TaskAt(k, {"failed"}) => tasks[k].pin = AllNodes

\* C26: a NUMA MapReduce call has exactly D domain tasks, one per domain
\* index, and a returned value is redfunc applied to exactly the D partial
\* results of these tasks, each taken once.
C26_DomainPartials ==
    call.api = "numa" =>
        /\ Len(tasks) = exec.fNDomains
        /\ (call.phase = "returned" /\ last.st = "ok") =>
              /\ \A k \in 1 .. Len(tasks) : tasks[k].res.st = "ok"
              /\ last.val = redfunc([k \in 1 .. exec.fNDomains |-> tasks[k].res.val])

\* two domains, two partial results of the sequence [0, 3): 0 + 1 and 2
C26_Witness ==
    /\ Returned("numa") /\ call.form = "seq" /\ call.lo = 0 /\ call.hi = 3
    /\ exec.fNDomains = 2
    /\ tasks[1].res = Ok(1) /\ tasks[2].res = Ok(2)
    /\ last = Ok(3)

C28_ProcessFanOut ==
    call.api = "numa" => call.fanout = "TProcessExecutor"

\* the total number of threads the constructor divides among the domains
TotalThreads(def, nThreads) ==
    IF def = 1 THEN EffectivePoolSize(nThreads) ELSE nThreads

\* C29: fDomainNThreads is floor(total threads / D) for the D queried at
\* construction, it does not change while the executor lives, and it is the
\* size handed to every domain-local pool of every MapReduce call.
C29_DomainThreads ==
    /\ [](Returned("TNUMAExecutor") =>
            LET total == TotalThreads(exec.def, call.nThreads)
            IN /\ exec.fDomainNThreads * exec.fNDomains <= total
               /\ total < (exec.fDomainNThreads + 1) * exec.fNDomains)
    /\ [](call.api = "numa" =>
            \A k \in 1 .. Len(tasks) :
                TaskAt(k, {"ran", "failed", "done"}) =>
                    tasks[k].nThreads = exec.fDomainNThreads)
    /\ [][(exec.kind = "numa" /\ exec'.kind = "numa") =>
            /\ exec'.fDomainNThreads = exec.fDomainNThreads
            /\ exec'.fNDomains = exec.fNDomains]_vars

\* both domain-local pools of a call on two domains were given size 1
C29_Witness ==
    /\ Returned("numa") /\ exec.fNDomains = 2 /\ exec.fDomainNThreads = 1
    /\ \A k \in 1 .. 2 : tasks[k].pc = "done" /\ tasks[k].nThreads = 1

\* C30: an executor constructed for n >= 1 threads creates its domain-local
\* pools (all of size fDomainNThreads, C29) with a size of at least 1, and
\* the effective sizes of the D pools add up to at most n.
C30_PoolSizes ==
    (Returned("TNUMAExecutor") /\ call.nThreads >= 1) =>
        /\ exec.fDomainNThreads >= 1
        /\ exec.fNDomains * EffectivePoolSize(exec.fDomainNThreads) <= call.nThreads

\* C31: the chunk hint a domain task hands to its pool is floor(nChunks / D)
\* when the caller's nChunks is non-zero and the automatic choice (0) when
\* it is zero, in the count, vector and TSeq forms.
C31_DomainHint ==
    call.api = "numa" =>
        \A k \in 1 .. Len(tasks) :
            TaskAt(k, {"ran", "failed", "done"}) =>
                IF call.nChunks = 0 THEN tasks[k].hint = 0
                ELSE /\ tasks[k].hint * exec.fNDomains <= call.nChunks
                     /\ call.nChunks < (tasks[k].hint + 1) * exec.fNDomains

\* a TSeq call with nChunks = MaxChunks on two domains: both hints are
\* MaxChunks \div 2
C31_Witness ==
    /\ Returned("numa") /\ call.form = "seq" /\ call.nChunks = MaxChunks
    /\ exec.fNDomains = 2
    /\ \A k \in 1 .. 2 : tasks[k].pc = "done" /\ tasks[k].hint = MaxChunks \div 2

\* C32: a non-zero nChunks of the caller reaches every domain-local pool as
\* a non-zero chunk hint.
C32_ExplicitHintKept ==
    (call.api = "numa" /\ call.nChunks > 0) =>
        \A k \in 1 .. Len(tasks) :
            TaskAt(k, {"ran", "failed", "done"}) => tasks[k].hint > 0

\* the backend objects a TExecutor holds
BackendObjects(e) ==
    {b \in {"seq", "thread", "proc"} :
        \/ b = "seq" /\ e.fSeqPool # NullPool
        \/ b = "thread" /\ e.fThreadPool # NullPool
        \/ b = "proc" /\ e.fProcPool # NullPool}

\* C33: a constructed TExecutor holds exactly one backend object, the one
\* its switches select for fExecPolicy; no Map or MapReduce call and no
\* GetPoolSize call takes the default branch of its switch.
C33_OneBackend ==
    exec.kind = "facade" =>
        /\ Cardinality(BackendObjects(exec)) = 1
        /\ TExecutor_Map(exec.fExecPolicy) \in BackendObjects(exec)
        /\ call.api \in {"map", "mapreduce"} => call.backend # "none"
        /\ Returned("GetPoolSize") => last.st = "ok" /\ last.val >= 1

\* a Map call of a kMultiprocess executor was forwarded to its process pool
C33_Witness ==
    /\ Returned("map") /\ exec.kind = "facade"
    /\ exec.fExecPolicy = "kMultiprocess"
    /\ call.backend = "proc" /\ BackendObjects(exec) = {"proc"}

\* the evaluator has left its if / else-if chain, or has returned
EvaluatorMapped == InEvaluator \/ EvaluatorReturned

\* C34: under the serial policy and under the multithread policy EvalChi2
\* and EvalLogL invoke the map function exactly once on every index of
\* [0, floor(n / vecSize)) and on no other index.
C34_SameIndexSet ==
    (EvaluatorMapped /\ call.executionPolicy \in {0, 1}) =>
        \A k \in Keys :
            invoked[k] = IF k < Len(call.vec) \div call.vecSize THEN 1 ELSE 0

\* three indices mapped by the pool of the multithread policy
C34_Witness ==
    /\ InEvaluator /\ call.executionPolicy = 1
    /\ Len(call.vec) = 3 /\ call.vecSize = 1
    /\ \A k \in 0 .. 2 : invoked[k] = 1

\* C35: when the MapReduce of the multithread policy has completed, nPoints
\* is the value it had before plus the number of invocations of the map
\* function.
C35_CounterExact ==
    (InEvaluator /\ call.executionPolicy = 1) =>
        call.nPoints = call.nPoints0 + TotalInvoked

\* C36: EvalChi2 called on data whose fit options ask for the integral in
\* the bin or for expected errors ends in an error, and the map function is
\* invoked on no data point.
C36_UnsupportedOptionsAbort ==
    (call.api = "EvalChi2" /\ call.fitOpt /\ call.phase \in {"running", "returned"}) =>
        /\ TotalInvoked = 0
        /\ call.phase = "returned" => last.st = "error"

\* the per-item results of the evaluator's data, and a cut of them in two
EvaluatorItems ==
    MapItems(call.api, call.vec, call.vecSize, call.iWeight, 0, call.hi)

\* C37: redFunction returns the element for a single-element sequence and
\* the value-initialised element for the empty sequence; folding the two
\* parts of any cut of the per-item results and then folding the two partial
\* results is folding all per-item results in one pass, and this is the
\* result of the multithread policy.
C37_RedFunctionFold ==
    EvaluatorMapped =>
        LET items == EvaluatorItems
            red(objs) == redFunction(call.api, call.vecSize, objs)
        IN /\ red(<<>>) = ResultInit(call.api, call.vecSize)
           /\ \A j \in 1 .. Len(items) : red(<<items[j]>>) = items[j]
           /\ \A j \in 0 .. Len(items) :
                red(<<red(SubSeq(items, 1, j)), red(SubSeq(items, j + 1, Len(items)))>>)
                  = red(items)
           /\ (call.executionPolicy = 1 /\ (InEvaluator \/ last.st = "ok")) =>
                call.res = red(items)

\* EvalLogL with squared weights over three points, folded by the pool
C37_Witness ==
    /\ InEvaluator /\ call.api = "EvalLogL" /\ call.executionPolicy = 1
    /\ call.iWeight = 2 /\ Len(call.vec) = 3 /\ call.vecSize = 1
    /\ call.res = redFunction("EvalLogL", 1, EvaluatorItems)

\* C38: LikelihoodAux addition adds logvalue, weight and weight2 member by
\* member, is associative and commutative, has the default-constructed
\* element as identity, and a += b leaves a equal to a + b.
C38_LikelihoodAuxAlgebra ==
    (EvaluatorMapped /\ call.api = "EvalLogL") =>
        LET items == EvaluatorItems
            zero == ResultInit("EvalLogL", call.vecSize)
            J == 1 .. Len(items)
        IN \A i \in J, j \in J, k \in J :
             LET a == items[i]  b == items[j]  c == items[k]
             IN /\ LikelihoodAux_plus(a, b) =
                     [logvalue |-> AddT(a.logvalue, b.logvalue),
                      weight |-> AddT(a.weight, b.weight),
                      weight2 |-> AddT(a.weight2, b.weight2)]
                /\ LikelihoodAux_plus(a, b) = LikelihoodAux_plus(b, a)
                /\ LikelihoodAux_plus(LikelihoodAux_plus(a, b), c)
                     = LikelihoodAux_plus(a, LikelihoodAux_plus(b, c))
                /\ LikelihoodAux_plus(a, zero) = a
                /\ LikelihoodAux_plus(zero, a) = a
                /\ LikelihoodAux_plusAssign(a, b) = LikelihoodAux_plus(a, b)

\* the sum of the weighted terms of two points, as the pool returned it
C38_Witness ==
    /\ InEvaluator /\ call.api = "EvalLogL" /\ call.executionPolicy = 1
    /\ call.iWeight = 2 /\ Len(call.vec) = 2 /\ call.vecSize = 1
    /\ call.res = LikelihoodAux_plus(EvaluatorItems[1], EvaluatorItems[2])
    /\ call.res.weight2 # ZeroT(1)

\* C39: an IntegralEvaluator constructed with useIntegral = false has made
\* no allocation and holds no integrator; an evaluator that exists holds the
\* one-dim integrator exactly when its dimension is 1 and the multi-dim
\* integrator exactly when it is above 1, never both; and when the
\* destructor has returned, no allocation of the evaluator is live.
C39_IntegratorOwnership ==
    /\ (Returned("IntegralEvaluator") /\ ~call.useIntegral /\ last.st = "ok") =>
          /\ exec.allocated = 0 /\ exec.heap = {}
          /\ exec.fIg1Dim = 0 /\ exec.fIgNDim = 0
          /\ exec.fFunc1Dim = 0 /\ exec.fFuncNDim = 0
    /\ exec.kind = "IntegralEvaluator" =>
          /\ (exec.fIg1Dim # 0) <=> (exec.fDim = 1)
          /\ (exec.fIgNDim # 0) <=> (exec.fDim > 1)
          /\ ~(exec.fIg1Dim # 0 /\ exec.fIgNDim # 0)
    /\ Returned("~IntegralEvaluator") => call.heap = {}

====
